---- MODULE Spec2Model ----
(***************************************************************************)
(* fback: backup-file wordlist generator (src/fback.py).                   *)
(*                                                                         *)
(* A Python string is modelled as a sequence of one-character strings, so  *)
(* that substring replacement, slash collapsing, prefix tests and decimal  *)
(* conversion are computed character by character as the interpreter does. *)
(* The driver main() is a sequential program; pc is its position.          *)
(***************************************************************************)
EXTENDS Integers, Sequences, FiniteSets, Bags, TLC

(* ---------------------------------------------------------------- bounds *)
MaxTemplates == 2
MaxUrls == 2
MaxWords == 2
MaxExt == 1
MaxN == 2

(* ------------------------------------------------------- string helpers *)

\* Python None; distinct from every character string (its only element is
\* not a single character).
None == <<"None">>

\* Python truthiness of an optional list / string: None and empty are falsy.
Truthy(v) == v # None /\ v # <<>>

\* sub in s
Contains(s, sub) ==
    \E k \in 1..(Len(s) - Len(sub) + 1) : SubSeq(s, k, k + Len(sub) - 1) = sub

\* s.startswith(pre)
startswith(s, pre) == Len(pre) <= Len(s) /\ SubSeq(s, 1, Len(pre)) = pre

\* s.replace(old, new) for a non-empty old: leftmost, non-overlapping, one scan.
RECURSIVE replaceFrom(_, _, _, _)
replaceFrom(s, old, new, k) ==
    IF k > Len(s) THEN <<>>
    ELSE IF k + Len(old) - 1 <= Len(s) /\ SubSeq(s, k, k + Len(old) - 1) = old
         THEN new \o replaceFrom(s, old, new, k + Len(old))
         ELSE <<s[k]>> \o replaceFrom(s, old, new, k + 1)

replace(s, old, new) == replaceFrom(s, old, new, 1)

\* s.lstrip("/")
RECURSIVE lstrip(_)
lstrip(s) == IF s # <<>> /\ s[1] = "/" THEN lstrip(Tail(s)) ELSE s

\* s.rstrip("/")
RECURSIVE rstrip(_)
rstrip(s) ==
    IF s # <<>> /\ s[Len(s)] = "/" THEN rstrip(SubSeq(s, 1, Len(s) - 1)) ELSE s

\* s.rfind("/") + 1
RECURSIVE rfindSlash(_, _)
rfindSlash(s, k) == IF k = 0 \/ s[k] = "/" THEN k ELSE rfindSlash(s, k - 1)

\* s.split("/")
RECURSIVE splitAcc(_, _, _, _)
splitAcc(s, k, cur, acc) ==
    IF k > Len(s) THEN Append(acc, cur)
    ELSE IF s[k] = "/" THEN splitAcc(s, k + 1, <<>>, Append(acc, cur))
         ELSE splitAcc(s, k + 1, Append(cur, s[k]), acc)

\* "/".join(parts)
RECURSIVE join(_)
join(parts) ==
    IF parts = <<>> THEN <<>>
    ELSE IF Len(parts) = 1 THEN parts[1]
         ELSE parts[1] \o <<"/">> \o join(Tail(parts))

Digit == <<"0", "1", "2", "3", "4", "5", "6", "7", "8", "9">>

RECURSIVE digits(_)
digits(x) == IF x < 10 THEN <<Digit[x + 1]>>
             ELSE digits(x \div 10) \o <<Digit[(x % 10) + 1]>>

\* str(x) for an integer x
str(x) == IF x < 0 THEN <<"-">> \o digits(0 - x) ELSE digits(x)

DigitVal(c) == CHOOSE d \in 0..9 : Digit[d + 1] = c

IsDigits(s) == s # <<>> /\ \A k \in 1..Len(s) : \E d \in 0..9 : Digit[d + 1] = s[k]

\* does int(s) succeed: an optional sign followed by decimal digits
IsInt(s) ==
    IF s # <<>> /\ (s[1] = "-" \/ s[1] = "+") THEN IsDigits(Tail(s)) ELSE IsDigits(s)

RECURSIVE natOf(_)
natOf(s) == IF s = <<>> THEN 0
            ELSE 10 * natOf(SubSeq(s, 1, Len(s) - 1)) + DigitVal(s[Len(s)])

\* int(s)
int(s) == IF s[1] = "-" THEN 0 - natOf(Tail(s))
          ELSE IF s[1] = "+" THEN natOf(Tail(s)) ELSE natOf(s)

\* a range that also yields stop
range_off(start, stop) ==
    IF stop + 1 > start THEN [k \in 1..(stop + 1 - start) |-> start + k - 1] ELSE <<>>

\* list(range(start, stop)): start, start+1, ..., stop-1
range(start, stop) ==
    IF stop > start THEN [k \in 1..(stop - start) |-> start + k - 1] ELSE <<>>

\* [str(x) for x in xs]
strs(xs) == [k \in 1..Len(xs) |-> str(xs[k])]

\* the elements of a list
Elems(xs) == {xs[k] : k \in 1..Len(xs)}

\* os.path.dirname(p)
dirname(p) ==
    LET head == SubSeq(p, 1, rfindSlash(p, Len(p)))
    IN  IF head # <<>> /\ lstrip(head) # <<>> THEN rstrip(head) ELSE head

\* os.path.basename(p)
basename(p) == SubSeq(p, rfindSlash(p, Len(p)) + 1, Len(p))

\* str(pathlib.Path(p)) on POSIX: empty and "." components dropped, a root
\* of exactly two slashes kept, the empty path printed as "."
PathStr(p) ==
    LET parts == SelectSeq(splitAcc(p, 1, <<>>, <<>>),
                           LAMBDA c : c # <<>> /\ c # <<".">>)
        root  == IF startswith(p, <<"/", "/">>) /\ ~startswith(p, <<"/", "/", "/">>)
                 THEN <<"/", "/">>
                 ELSE IF startswith(p, <<"/">>) THEN <<"/">> ELSE <<>>
        r     == root \o join(parts)
    IN  IF r = <<>> THEN <<".">> ELSE r

(* ----------------------------------------------------------- placeholders *)
PH_domain_name == <<"$","d","o","m","a","i","n","_","n","a","m","e">>
PH_subdomain   == <<"$","s","u","b","d","o","m","a","i","n">>
PH_tld         == <<"$","t","l","d">>
PH_full_domain == <<"$","f","u","l","l","_","d","o","m","a","i","n">>
PH_path        == <<"$","p","a","t","h">>
PH_full_path   == <<"$","f","u","l","l","_","p","a","t","h">>
PH_file_name   == <<"$","f","i","l","e","_","n","a","m","e">>
PH_word        == <<"$","w","o","r","d">>
PH_ext         == <<"$","e","x","t">>
PH_num         == <<"$","n","u","m">>
PH_b_ext       == <<"$","b","_","e","x","t">>
PH_c_ext       == <<"$","c","_","e","x","t">>
PH_y           == <<"%","y">>
PH_m           == <<"%","m">>
PH_d           == <<"%","d">>

StaticPlaceholders ==
    {PH_domain_name, PH_subdomain, PH_tld, PH_full_domain, PH_path,
     PH_full_path, PH_file_name}

Placeholders ==
    StaticPlaceholders \cup
    {PH_word, PH_ext, PH_num, PH_b_ext, PH_c_ext, PH_y, PH_m, PH_d}

(* ------------------------------------------------- the program's tables *)
default_wordlist ==
    << <<"w","e","b">>, <<"f","u","l","l","b","a","c","k","u","p">>, <<"b","a","c","k","u","p">>,
       <<"d","a","t","a">>, <<"s","i","t","e">>, <<"a","s","s","e","t","s">>,
       <<"l","o","g","s">>, <<"d","e","b","u","g">>, <<"i","n","s","t","a","l","l">> >>

B_EXT ==
    << <<"b","p","a">>, <<"b","a","k">>, <<"s","w","p">>,
       <<"~">>, <<"t","m","p">>, <<"b","c","k","p">>,
       <<"n","e","w">>, <<"s","p","g">>, <<"a","c","p">>,
       <<"b","k","u","p">>, <<"b","a","c","k","u","p">>, <<"b","a","k","3">>,
       <<"b","k","z">>, <<"a","b","u">>, <<"b","d","b">>,
       <<"b","l","e","n","d">>, <<"b","a","c","k","u","p","d","b">>, <<"s","a","v">>,
       <<"s","a","v","e">>, <<"o","r","i","g">>, <<"t","i","g">>,
       <<"s","h">>, <<"b","c","k">>, <<"b","k">>,
       <<"b","a","s","h">>, <<"c","o","p","y">>, <<"b","a","c","k","u","p","1">>,
       <<"b","a","k","x">>, <<"n","p","f">>, <<"l","o","g">>,
       <<"o","l","d">>, <<"b","u","n","d","l","e">>, <<"a","d","i">>,
       <<"m","b","k">>, <<"b","a">>, <<"b","a","k","2">>,
       <<"b","p","s">>, <<"p","a","c","k">>, <<"a","b","k">>,
       <<"b","a","c","k">> >>

C_EXT ==
    << <<"z","i","p">>, <<"r","a","r">>, <<"7","z">>,
       <<"t","a","r">>, <<"g","z","i","p">>, <<"b","z","i","p">>,
       <<"b","z">>, <<"t","a","r",".","x","z">>, <<"p","k","g",".","t","a","r",".","x","z">>,
       <<"t","g">>, <<"t","a","r",".","g","z">>, <<"t","a","r",".","b","z","i","p">>,
       <<"t","s","v",".","g","z">>, <<"g","z">>, <<"d","z">>,
       <<"t","b","z">>, <<"p","k","g">> >>

\* the first k entries of a list
Prefix(xs, k) == SubSeq(xs, 1, IF k < Len(xs) THEN k ELSE Len(xs))

(* --------------------------------------------------- the program's code *)

\* url is the pair of library results for one input line:
\* tldextract.extract(url) gives subdomain, domain, suffix and
\* urlparse(url) gives scheme, path.
extract_url_parts(url) ==
    LET domain_name == url.domain
        subdomain   == url.subdomain
        tld         == url.suffix
        base        == basename(url.path)
    IN  [ domain_name |-> domain_name,
          scheme      |-> url.scheme,
          subdomain   |-> subdomain,
          tld         |-> tld,
          full_domain |-> IF subdomain # <<>>
                          THEN subdomain \o <<".">> \o domain_name \o <<".">> \o tld
                          ELSE domain_name \o <<".">> \o tld,
          path        |-> dirname(url.path),
          full_path   |-> PathStr(url.path),
          file_name   |-> IF ~Contains(base, <<".">>) THEN <<>> ELSE base ]

\* can generateVariablesList(arg_str) return, or does int() raise
RangeArgOk(arg_str) ==
    \/ ~Truthy(arg_str)
    \/ ~Contains(arg_str, <<"-">>)
    \/ LET cut == CHOOSE k \in 1..Len(arg_str) :
                     arg_str[k] = "-" /\ \A j \in 1..(k - 1) : arg_str[j] # "-"
       IN  IsInt(SubSeq(arg_str, 1, cut - 1)) /\ IsInt(SubSeq(arg_str, cut + 1, Len(arg_str)))

\* the expander without the + 1 on the upper bound
generateVariablesList_short(arg_str) ==
    IF Truthy(arg_str)
    THEN IF Contains(arg_str, <<"-">>)
         THEN LET cut   == CHOOSE k \in 1..Len(arg_str) :
                               arg_str[k] = "-" /\ \A j \in 1..(k - 1) : arg_str[j] # "-"
                  start == SubSeq(arg_str, 1, cut - 1)
                  end   == SubSeq(arg_str, cut + 1, Len(arg_str))
              IN  strs(range(int(start), int(end)))
         ELSE <<arg_str>>
    ELSE None

generateVariablesList(arg_str) ==
    IF Truthy(arg_str)
    THEN IF Contains(arg_str, <<"-">>)
         THEN LET cut   == CHOOSE k \in 1..Len(arg_str) :
                               arg_str[k] = "-" /\ \A j \in 1..(k - 1) : arg_str[j] # "-"
                  start == SubSeq(arg_str, 1, cut - 1)
                  end   == SubSeq(arg_str, cut + 1, Len(arg_str))
              IN  strs(range(int(start), int(end) + 1))
         ELSE <<arg_str>>
    ELSE None

\* the six replacements staticReplace applies to one pattern, in its order
staticSubst(p, vars_dict) ==
    LET s1 == replace(p,  PH_domain_name, vars_dict.domain_name)
        s2 == replace(s1, PH_full_domain, vars_dict.full_domain)
        s3 == replace(s2, PH_subdomain,   vars_dict.subdomain)
        s4 == replace(s3, PH_path,        vars_dict.path)
        s5 == replace(s4, PH_full_path,   vars_dict.full_path)
    IN  replace(s5, PH_file_name, vars_dict.file_name)

\* the loop of staticReplace: for p in patterns
RECURSIVE staticLoop(_, _, _, _)
staticLoop(out, patterns, vars_dict, k) ==
    IF k > Len(patterns) THEN out
    ELSE LET s == staticSubst(patterns[k], vars_dict)
         IN  IF s \notin Elems(out)
             THEN staticLoop(Append(out, s), patterns, vars_dict, k + 1)
             ELSE staticLoop(out, patterns, vars_dict, k + 1)

staticReplace(patterns, vars_dict) == staticLoop(<<>>, patterns, vars_dict, 1)

\* the inner loop without its membership test
RECURSIVE dynamicInner_all(_, _, _, _, _)
dynamicInner_all(out, p, repList, placeholder, j) ==
    IF j > Len(repList) THEN out
    ELSE dynamicInner_all(Append(out, replace(p, placeholder, repList[j])),
                          p, repList, placeholder, j + 1)

\* the inner loop of dynamicReplace: for x in repList
RECURSIVE dynamicInner(_, _, _, _, _)
dynamicInner(out, p, repList, placeholder, j) ==
    IF j > Len(repList) THEN out
    ELSE LET s == replace(p, placeholder, repList[j])
         IN  IF s \notin Elems(out)
             THEN dynamicInner(Append(out, s), p, repList, placeholder, j + 1)
             ELSE dynamicInner(out, p, repList, placeholder, j + 1)

\* the outer loop of dynamicReplace: for p in patterns
RECURSIVE dynamicOuter(_, _, _, _, _)
dynamicOuter(out, patterns, repList, placeholder, k) ==
    IF k > Len(patterns) THEN out
    ELSE dynamicOuter(dynamicInner(out, patterns[k], repList, placeholder, 1),
                      patterns, repList, placeholder, k + 1)

\* repList holds strings; the numeric pass hands in strs(range(..)), which
\* is the str(x) of the loop body applied to the integers
dynamicReplace(patterns, repList, placeholder) ==
    dynamicOuter(<<>>, patterns, repList, placeholder, 1)

checkPatternsExtension(patterns) ==
    [ b_ext |-> \E k \in 1..Len(patterns) : Contains(patterns[k], PH_b_ext),
      c_ext |-> \E k \in 1..Len(patterns) : Contains(patterns[k], PH_c_ext) ]

cleanWord(w, scheme, domain, relative) ==
    LET word == replace(w, <<"/", "/">>, <<"/">>)
    IN  IF relative THEN lstrip(word)
        ELSE scheme \o <<":", "/", "/">> \o domain \o
             (IF ~startswith(word, <<"/">>) THEN <<"/">> \o word ELSE word)

cleanResult(result, scheme, domain, relative) ==
    [k \in 1..Len(result) |-> cleanWord(result[k], scheme, domain, relative)]

\* the test guarding f.write in saveResults
saveFilter(item) == ~Contains(item, <<"%">>) /\ ~Contains(item, <<"$">>)

\* a print test that looks for `$` alone
printFilter_dollar(entry) == ~Contains(entry, <<"$">>)

\* the test guarding print in main
printFilter(entry) == ~Contains(entry, <<"%">>) /\ ~Contains(entry, <<"$">>)

(* ------------------------------------------------------------ the inputs *)

T_filenum   == <<"$","f","i","l","e","_","n","a","m","e","$","n","u","m">>
T_wordtld   == <<"$","w","o","r","d",".","$","t","l","d">>
T_year      == <<"b","%","y">>
T_ymd       == <<"%","y","%","m","%","d">>
T_slash3    == <<"a","/","/","/","b">>
T_slash2    == <<"a","/","/","b">>
T_plain     == <<"a","/","b">>
T_bext      == <<"x",".","$","b","_","e","x","t">>
T_cext      == <<"y",".","$","c","_","e","x","t">>
T_wordext   == <<"$","w","o","r","d",".","$","e","x","t">>
T_pathword  == <<"$","p","a","t","h","/","$","w","o","r","d">>
T_subdomain == <<"$","s","u","b","d","o","m","a","i","n",".","$","d","o","m","a","i","n","_","n","a","m","e">>
T_fullpath  == <<"$","f","u","l","l","_","d","o","m","a","i","n","$","f","u","l","l","_","p","a","t","h">>
T_scheme    == <<"h","t","t","p","s",":","/","/","/","a">>

\* lines of a patterns file
TemplatePool ==
    {T_filenum, T_wordtld, T_year, T_slash3, T_slash2, T_plain, T_bext, T_cext,
     T_wordext, T_pathword, T_subdomain, T_fullpath, T_scheme}

\* patterns files for the runs that vary the lists
ListPatterns == {<<T_bext>>, <<T_plain>>, <<T_filenum>>, <<T_bext, T_plain>>}

DateTemplates == {T_year, T_ymd, T_plain}

\* https://a.io/site.php
U_site == [scheme |-> <<"h","t","t","p","s">>, subdomain |-> <<>>,
           domain |-> <<"a">>, suffix |-> <<"i","o">>,
           path |-> <<"/","s","i","t","e",".","p","h","p">>]

\* http://s.b.uk/app/site.php
U_app  == [scheme |-> <<"h","t","t","p">>, subdomain |-> <<"s">>,
           domain |-> <<"b">>, suffix |-> <<"u","k">>,
           path |-> <<"/","a","p","p","/","s","i","t","e",".","p","h","p">>]

\* http://b.uk/
U_root == [scheme |-> <<"h","t","t","p">>, subdomain |-> <<>>,
           domain |-> <<"b">>, suffix |-> <<"u","k">>,
           path |-> <<"/">>]

UrlPool == {U_site, U_app, U_root}

\* values of -yr: absent, "", "9-11", "4-3", "7", "1--1", "-1-1"
ArgPool ==
    {None, <<>>, <<"9","-","1","1">>, <<"4","-","3">>, <<"7">>,
     <<"1","-","-","1">>, <<"-","1","-","1">>}

\* values of -mr and -dr: absent, "7", "4-3", "1-2"
ShortArgPool == {None, <<"7">>, <<"4","-","3">>, <<"1","-","2">>}

SeqsOf(S, lo, hi) == UNION {[1..k -> S] : k \in lo..hi}

DefaultConfig ==
    [ patterns |-> <<T_plain>>, urls |-> <<U_site>>,
      wordlist |-> Prefix(default_wordlist, MaxWords),
      b_ext |-> Prefix(B_EXT, MaxExt), c_ext |-> Prefix(C_EXT, MaxExt),
      n |-> MaxN, yr |-> None, mr |-> None, dr |-> None,
      relative |-> FALSE, o |-> TRUE ]

\* runs that vary the patterns file and the -r flag
TemplateConfigs ==
    { [DefaultConfig EXCEPT !.patterns = ps, !.relative = r] :
        ps \in SeqsOf(TemplatePool, 1, MaxTemplates), r \in BOOLEAN }

\* runs that vary the URL list
UrlConfigs ==
    { [DefaultConfig EXCEPT !.patterns = <<p>>, !.urls = us, !.relative = r] :
        p \in TemplatePool, us \in SeqsOf(UrlPool, 1, MaxUrls), r \in BOOLEAN }

\* runs that vary the wordlist file, -n and the extension tables
ListConfigs ==
    { [DefaultConfig EXCEPT !.patterns = ps, !.wordlist = Prefix(default_wordlist, w),
                            !.n = n, !.b_ext = Prefix(B_EXT, b),
                            !.c_ext = Prefix(C_EXT, c), !.relative = r] :
        ps \in ListPatterns, w \in 0..MaxWords,
        n \in 0..MaxN, b \in 0..MaxExt, c \in 0..MaxExt, r \in BOOLEAN }

\* runs that vary -yr, -mr, -dr and -o
DateConfigs ==
    { [DefaultConfig EXCEPT !.patterns = <<p>>, !.yr = y, !.mr = m, !.dr = d,
                            !.o = o, !.relative = TRUE] :
        p \in DateTemplates, y \in ArgPool, m \in ShortArgPool, d \in ShortArgPool,
        o \in BOOLEAN }

Configs == TemplateConfigs \cup UrlConfigs \cup ListConfigs \cup DateConfigs

(* -------------------------------------------------------------- the state *)
VARIABLES
    args,         \* parsed command line: n, yr, mr, dr, relative, o
    patterns,     \* loadPatterns(args)
    wordlist,     \* main: wordlist
    b_ext,        \* main: b_ext
    c_ext,        \* main: c_ext
    urls,         \* loadUrls(args)
    years, months, days,
    i,            \* index of the URL the for loop of main is at
    vars_dict,    \* extract_url_parts(url)
    pats,         \* createWordlist: pats
    flags,        \* createWordlist: flags
    wl,           \* what createWordlist returned for the last URL
    all_results,
    unique,
    outfile,      \* lines written to args.o, as a bag
    stdout,       \* lines printed, as a bag
    pc

vars == <<args, patterns, wordlist, b_ext, c_ext, urls, years, months, days, i,
          vars_dict, pats, flags, wl, all_results, unique, outfile, stdout, pc>>

inputs == <<args, patterns, wordlist, b_ext, c_ext, urls>>

\* main: ext = b_ext + c_ext
ext == b_ext \o c_ext

NoVars == [ domain_name |-> <<>>, scheme |-> <<>>, subdomain |-> <<>>, tld |-> <<>>,
            full_domain |-> <<>>, path |-> <<>>, full_path |-> <<>>, file_name |-> <<>> ]

Init ==
    \E cfg \in Configs :
        /\ args = [n |-> cfg.n, yr |-> cfg.yr, mr |-> cfg.mr, dr |-> cfg.dr,
                   relative |-> cfg.relative, o |-> cfg.o]
        /\ patterns = cfg.patterns
        /\ wordlist = cfg.wordlist
        /\ b_ext = cfg.b_ext
        /\ c_ext = cfg.c_ext
        /\ urls = cfg.urls
        /\ years = None /\ months = None /\ days = None
        /\ i = 1
        /\ vars_dict = NoVars
        /\ pats = <<>>
        /\ flags = [b_ext |-> FALSE, c_ext |-> FALSE]
        /\ wl = <<>>
        /\ all_results = <<>>
        /\ unique = {}
        /\ outfile = EmptyBag
        /\ stdout = EmptyBag
        /\ pc = "ranges"

(* ------------------------------------------------------------ the actions *)

\* main: years, months, days = generateVariablesList(...); int() of a bad
\* bound raises and ends the run
GenerateRanges ==
    /\ pc = "ranges"
    /\ IF RangeArgOk(args.yr) /\ RangeArgOk(args.mr) /\ RangeArgOk(args.dr)
       THEN /\ years' = generateVariablesList(args.yr)
            /\ months' = generateVariablesList(args.mr)
            /\ days' = generateVariablesList(args.dr)
            /\ pc' = "url"
       ELSE /\ pc' = "crashed"
            /\ UNCHANGED <<years, months, days>>
    /\ UNCHANGED <<inputs, i, vars_dict, pats, flags, wl, all_results, unique,
                   outfile, stdout>>

\* main: for url in urls: vars_dict = extract_url_parts(url)
ExtractUrl ==
    /\ pc = "url"
    /\ i <= Len(urls)
    /\ vars_dict' = extract_url_parts(urls[i])
    /\ pc' = "static"
    /\ UNCHANGED <<inputs, years, months, days, i, pats, flags, wl, all_results,
                   unique, outfile, stdout>>

\* one statement of createWordlist: pats becomes np, control moves to next
Pass(at, np, next) ==
    /\ pc = at
    /\ pats' = np
    /\ pc' = next
    /\ UNCHANGED <<inputs, years, months, days, i, vars_dict, flags, wl,
                   all_results, unique, outfile, stdout>>

StaticPass == Pass("static", staticReplace(patterns, vars_dict), "word")

WordPass == Pass("word", dynamicReplace(pats, wordlist, PH_word), "ext")

ExtPass == Pass("ext", dynamicReplace(pats, ext, PH_ext), "num")

NumPass == Pass("num", dynamicReplace(pats, strs(range(1, args.n + 1)), PH_num), "year")

YearPass ==
    Pass("year", IF Truthy(years) THEN dynamicReplace(pats, years, PH_y) ELSE pats, "month")

MonthPass ==
    Pass("month", IF Truthy(months) THEN dynamicReplace(pats, months, PH_m) ELSE pats, "day")

DayPass ==
    Pass("day", IF Truthy(days) THEN dynamicReplace(pats, days, PH_d) ELSE pats, "flags")

CheckExt ==
    /\ pc = "flags"
    /\ flags' = checkPatternsExtension(pats)
    /\ pc' = "b_ext"
    /\ UNCHANGED <<inputs, years, months, days, i, vars_dict, pats, wl, all_results,
                   unique, outfile, stdout>>

BExtPass ==
    Pass("b_ext", IF flags.b_ext THEN dynamicReplace(pats, b_ext, PH_b_ext) ELSE pats, "c_ext")

CExtPass ==
    Pass("c_ext", IF flags.c_ext THEN dynamicReplace(pats, c_ext, PH_c_ext) ELSE pats, "clean")

\* createWordlist returns cleanResult(...); main extends all_results with it
Clean ==
    /\ pc = "clean"
    /\ wl' = cleanResult(pats, vars_dict.scheme, vars_dict.full_domain, args.relative)
    /\ all_results' = all_results \o wl'
    /\ i' = i + 1
    /\ pc' = "url"
    /\ UNCHANGED <<inputs, years, months, days, vars_dict, pats, flags, unique,
                   outfile, stdout>>

\* main: unique = set(all_results)
Unique ==
    /\ pc = "url"
    /\ i > Len(urls)
    /\ unique' = Elems(all_results)
    /\ pc' = "save"
    /\ UNCHANGED <<inputs, years, months, days, i, vars_dict, pats, flags, wl,
                   all_results, outfile, stdout>>

\* saveResults(unique, args): one line per element of the set that passes
\* the test, in the set's iteration order
SaveResults ==
    /\ pc = "save"
    /\ outfile' = IF args.o THEN SetToBag({item \in unique : saveFilter(item)})
                  ELSE outfile
    /\ pc' = "print"
    /\ UNCHANGED <<inputs, years, months, days, i, vars_dict, pats, flags, wl,
                   all_results, unique, stdout>>

\* main: for entry in unique: print(entry) when it passes the test
PrintResults ==
    /\ pc = "print"
    /\ stdout' = SetToBag({entry \in unique : printFilter(entry)})
    /\ pc' = "done"
    /\ UNCHANGED <<inputs, years, months, days, i, vars_dict, pats, flags, wl,
                   all_results, unique, outfile>>

Next ==
    \/ GenerateRanges
    \/ ExtractUrl
    \/ StaticPass
    \/ WordPass
    \/ ExtPass
    \/ NumPass
    \/ YearPass
    \/ MonthPass
    \/ DayPass
    \/ CheckExt
    \/ BExtPass
    \/ CExtPass
    \/ Clean
    \/ Unique
    \/ SaveResults
    \/ PrintResults

Spec == Init /\ [][Next]_vars

(* ------------------------------------------------------------ properties *)

\* a call of createWordlist has returned: wl and vars_dict belong to urls[i-1]
Returned == pc = "url" /\ i > 1

NoDup(xs) == \A a, b \in 1..Len(xs) : a # b => xs[a] # xs[b]

NoPlaceholder(p) == \A ph \in Placeholders : ~Contains(p, ph)

Percent == <<"%">>
Dollar == <<"$">>
Slash == <<"/">>
SlashSlash == <<"/", "/">>
SchemeSep == <<":", "/", "/">>

Written == BagToSet(stdout) \cup BagToSet(outfile)

\* C1: no line written to standard output or to the output file contains
\* `%` or `$`; in particular none contains `%y`, `%m` or `%d`, whether or
\* not the corresponding range was given.
C1_NoUnresolvedOutput ==
    \A e \in Written :
        /\ ~Contains(e, Percent) /\ ~Contains(e, Dollar)
        /\ ~Contains(e, PH_y) /\ ~Contains(e, PH_m) /\ ~Contains(e, PH_d)

\* a finished run without -yr in which an entry still holding %y was
\* held back while another entry was printed and saved
C1_Witness ==
    /\ pc = "done"
    /\ args.yr = None
    /\ \E e \in unique : Contains(e, PH_y)
    /\ stdout # EmptyBag
    /\ outfile # EmptyBag

\* C2: a template without any placeholder comes back from createWordlist
\* exactly once, as the normalized template, for every wordlist, extension
\* list and n; and a candidate that does not contain the placeholder of a
\* combinatorial pass leaves that pass exactly once and unchanged whatever
\* the value list is.
C2_PlainTemplateOnce ==
    /\ [](Returned =>
            \A k \in 1..Len(patterns) :
                NoPlaceholder(patterns[k]) =>
                    /\ cleanWord(patterns[k], vars_dict.scheme, vars_dict.full_domain,
                                 args.relative) \in Elems(wl)
                    /\ Len(patterns) = 1 => Len(wl) = 1)
    /\ [][ /\ pc = "word" =>
                \A c \in Elems(pats) : ~Contains(c, PH_word) =>
                    Cardinality({k \in 1..Len(pats') : pats'[k] = c}) = 1
           /\ pc = "ext" =>
                \A c \in Elems(pats) : ~Contains(c, PH_ext) =>
                    Cardinality({k \in 1..Len(pats') : pats'[k] = c}) = 1
           /\ pc = "num" =>
                \A c \in Elems(pats) : ~Contains(c, PH_num) =>
                    Cardinality({k \in 1..Len(pats') : pats'[k] = c}) = 1 ]_vars

\* C3: after the static pass no candidate contains any of the seven static
\* placeholders, and there are no more candidates than templates.
C3_StaticAllReplaced ==
    pc = "word" =>
        /\ \A k \in 1..Len(pats) : \A ph \in StaticPlaceholders : ~Contains(pats[k], ph)
        /\ Len(pats) <= Len(patterns)

\* the scenario of C4: the one template $file_name$num, one URL whose path
\* ends in site.php, -n 2, a wordlist and extension tables that are not empty
C4_Scenario ==
    /\ patterns = <<T_filenum>>
    /\ Len(urls) = 1
    /\ basename(urls[1].path) = <<"s","i","t","e",".","p","h","p">>
    /\ args.n = 2
    /\ wordlist # <<>>
    /\ ext # <<>>

\* how the entry made from the bare name w is printed in that scenario
C4_Line(w) ==
    IF args.relative THEN w
    ELSE vars_dict.scheme \o SchemeSep \o vars_dict.full_domain \o Slash \o w

\* C4 as stated: in the scenario the output is site1 and site2 exactly.
C4_SiteNumbers ==
    (pc = "done" /\ C4_Scenario) =>
        BagToSet(stdout) = { C4_Line(<<"s","i","t","e","1">>),
                             C4_Line(<<"s","i","t","e","2">>) }

\* C4 as amended: the numeric pass replaces $num by exactly the decimal
\* strings of 1..n, and in the scenario the output is site.php1 and
\* site.php2 exactly, since $file_name is the last path segment with its
\* extension.
C4_SitePhpNumbers ==
    /\ []((pc = "done" /\ C4_Scenario) =>
            BagToSet(stdout) = { C4_Line(<<"s","i","t","e",".","p","h","p","1">>),
                                 C4_Line(<<"s","i","t","e",".","p","h","p","2">>) })
    /\ [][ pc = "num" =>
             Elems(pats') = { replace(c, PH_num, str(x)) :
                                c \in Elems(pats), x \in 1..args.n } ]_vars

C4_Witness ==
    /\ pc = "done"
    /\ C4_Scenario
    /\ C4_Line(<<"s","i","t","e",".","p","h","p","2">>) \in BagToSet(stdout)

\* C5: cleanResult applied to its own result, with the same scheme, domain
\* and flag, gives the same entries.
C5_CleanIdempotent ==
    Returned =>
        cleanResult(wl, vars_dict.scheme, vars_dict.full_domain, args.relative) = wl

\* C6: with -r no entry of cleanResult contains scheme:// and none begins
\* with a slash.
C6_RelativeNoScheme ==
    (Returned /\ args.relative) =>
        \A k \in 1..Len(wl) :
            /\ ~Contains(wl[k], vars_dict.scheme \o SchemeSep)
            /\ ~startswith(wl[k], Slash)

\* C7: when a candidate contains $b_ext and the backup-extension list is
\* empty the $b_ext pass is skipped: the candidates are what they were, the
\* one with $b_ext among them.
C7_EmptyBExtSkipped ==
    [][ (pc = "b_ext" /\ flags.b_ext /\ b_ext = <<>>) =>
            /\ pats' = pats
            /\ \E k \in 1..Len(pats') : Contains(pats'[k], PH_b_ext) ]_vars

\* C8: without -r every entry of cleanResult is scheme://fullDomain followed
\* by a path that begins with one slash and contains no double slash.
C8_AbsoluteSingleSlashes ==
    (Returned /\ ~args.relative) =>
        \A k \in 1..Len(wl) :
            LET prefix == vars_dict.scheme \o SchemeSep \o vars_dict.full_domain
                path   == SubSeq(wl[k], Len(prefix) + 1, Len(wl[k]))
            IN  /\ startswith(wl[k], prefix)
                /\ startswith(path, Slash)
                /\ ~Contains(path, SlashSlash)

\* what C9 says generateVariablesList(arg) is
C9_Expands(arg, vals) ==
    IF arg = None \/ arg = <<>> THEN ~Truthy(vals)
    ELSE IF \E k \in 1..Len(arg) : arg[k] = "-"
         THEN LET cut   == CHOOSE k \in 1..Len(arg) :
                               arg[k] = "-" /\ \A j \in 1..(k - 1) : arg[j] # "-"
                  first == int(SubSeq(arg, 1, cut - 1))
                  last  == int(SubSeq(arg, cut + 1, Len(arg)))
              IN  /\ Len(vals) = IF first <= last THEN last - first + 1 ELSE 0
                  /\ \A k \in 1..Len(vals) : vals[k] = str(first + k - 1)
         ELSE vals = <<arg>>

\* C9: start-end gives the strings of start..end in ascending order (none
\* when start > end), cut at the first `-`; an argument without `-` gives
\* itself; an empty or absent one gives no values; and whenever no values
\* come back the %y / %m / %d pass leaves the candidates as they are.
C9_RangeExpander ==
    /\ [](pc \notin {"ranges", "crashed"} =>
            /\ C9_Expands(args.yr, years)
            /\ C9_Expands(args.mr, months)
            /\ C9_Expands(args.dr, days)
            /\ args.yr = <<"9","-","1","1">> =>
                 years = << <<"9">>, <<"1","0">>, <<"1","1">> >>
            /\ args.yr = <<"1","-","-","1">> => years = <<>>)
    /\ [][ /\ (pc = "year" /\ ~Truthy(years)) => pats' = pats
           /\ (pc = "month" /\ ~Truthy(months)) => pats' = pats
           /\ (pc = "day" /\ ~Truthy(days)) => pats' = pats ]_vars

\* -yr 4-3 gave no years, the year pass was stepped over and a candidate
\* still holds %y
C9_Witness ==
    /\ pc = "month"
    /\ args.yr = <<"4","-","3">>
    /\ years = <<>>
    /\ \E k \in 1..Len(pats) : Contains(pats[k], PH_y)

\* the candidates a combinatorial pass makes before duplicates are dropped:
\* for each candidate in order, one per value in the list's order
C10_Raw(cands, repList, placeholder) ==
    [m \in 1..(Len(cands) * Len(repList)) |->
        replace(cands[((m - 1) \div Len(repList)) + 1], placeholder,
                repList[((m - 1) % Len(repList)) + 1])]

C10_FirstIndex(raw, x) ==
    CHOOSE k \in 1..Len(raw) : raw[k] = x /\ \A j \in 1..(k - 1) : raw[j] # x

\* out is raw without its repeats, in the order of first appearance
C10_FirstAppearance(out, raw) ==
    /\ NoDup(out)
    /\ Elems(out) = Elems(raw)
    /\ \A a, b \in 1..Len(out) :
          a < b => C10_FirstIndex(raw, out[a]) < C10_FirstIndex(raw, out[b])

\* C10: after every substitution pass the candidates are pairwise different
\* and in order of first appearance, and no line is emitted twice.
C10_Deduplicated ==
    /\ [](/\ NoDup(pats)
          /\ \A e \in BagToSet(stdout) : CopiesIn(e, stdout) = 1
          /\ \A e \in BagToSet(outfile) : CopiesIn(e, outfile) = 1)
    /\ [][ /\ pc = "static" =>
                C10_FirstAppearance(pats',
                    [k \in 1..Len(patterns) |-> staticSubst(patterns[k], vars_dict)])
           /\ pc = "word" =>
                C10_FirstAppearance(pats', C10_Raw(pats, wordlist, PH_word))
           /\ pc = "ext" =>
                C10_FirstAppearance(pats', C10_Raw(pats, ext, PH_ext))
           /\ pc = "num" =>
                C10_FirstAppearance(pats',
                    C10_Raw(pats, [x \in 1..args.n |-> str(x)], PH_num))
           /\ (pc = "year" /\ Truthy(years)) =>
                C10_FirstAppearance(pats', C10_Raw(pats, years, PH_y))
           /\ (pc = "month" /\ Truthy(months)) =>
                C10_FirstAppearance(pats', C10_Raw(pats, months, PH_m))
           /\ (pc = "day" /\ Truthy(days)) =>
                C10_FirstAppearance(pats', C10_Raw(pats, days, PH_d))
           /\ (pc = "b_ext" /\ flags.b_ext) =>
                C10_FirstAppearance(pats', C10_Raw(pats, b_ext, PH_b_ext))
           /\ (pc = "c_ext" /\ flags.c_ext) =>
                C10_FirstAppearance(pats', C10_Raw(pats, c_ext, PH_c_ext)) ]_vars

\* a finished run where every pass met repeats (a template without
\* placeholders against lists of two values) and two URLs gave the same entry
C10_Witness ==
    /\ pc = "done"
    /\ patterns = <<T_plain>>
    /\ Len(wordlist) >= 2
    /\ Len(ext) >= 2
    /\ Len(all_results) > Cardinality(unique)
    /\ stdout # EmptyBag

====
